---- MODULE Spec2Model ----
(***************************************************************************)
(* Model of the AliExpress category scraper: scrape_pages and its page     *)
(* workers (src/scraper/aliexpress_scraper.py), the Bright Data transport  *)
(* (src/scraper/brightdata.py) and the NDJSON output file.                 *)
(*                                                                         *)
(* Spec is one call of scrape_pages.  IOSpec adds an output file that can  *)
(* fail to take an append, RestartSpec a second run on the file the first  *)
(* run left, FairSpec the scheduling of the event loop, and DelaySpec is   *)
(* Config.calculate_retry_delay (src/scraper/config.py) on its own.        *)
(*                                                                         *)
(* The workers are asyncio tasks on one event-loop thread.  `running` is   *)
(* the task the thread is executing (0: the loop is idle and may resume    *)
(* any ready task).  A task gives the thread up only at an `await` that    *)
(* really suspends; everything between two such awaits, the synchronous    *)
(* fetch_via_brightdata call included, runs with `running` held.           *)
(***************************************************************************)
EXTENDS Integers, Sequences, FiniteSets, TLC

\* ---------------------------------------------------------------- bounds
MaxPages == 2
MaxConcurrency == 2
MaxRetries == 2

\* ------------------------------------------------------- records and lines
NoUrl == 0

Product(u, t) == [product_url |-> u, tag |-> t]

\* One line of the output file.  kind "json" is a JSON object; the other
\* kinds are text that is not JSON, JSON that is not an object, and bytes
\* that are not UTF-8 (e.g. a line cut inside a multi-byte character).
Line(k, u, t) == [kind |-> k, product_url |-> u, tag |-> t]

\* json.dumps(it, ensure_ascii=False) + "\n"
Dumps(it) == Line("json", it.product_url, it.tag)

NotJson == Line("notjson", NoUrl, 0)
NotDict == Line("notdict", NoUrl, 0)
NoUrlObj == Line("json", NoUrl, 0)
BadUtf8 == Line("badutf8", NoUrl, 0)

\* The output files a run may start from.
InitialFiles ==
  { <<>>,
    << Dumps(Product(1, 1)) >>,
    << NotJson, Dumps(Product(2, 1)), NoUrlObj, Dumps(Product(1, 1)), NotDict >>,
    << Dumps(Product(1, 1)), BadUtf8 >> }

\* What the category pages hold, as a function of the page number.
Catalogues == {"distinct", "shared", "repeat", "empty"}

PageProducts(c, p) ==
  CASE c = "distinct" -> << Product(3*p - 2, 1), Product(3*p - 1, 1), Product(3*p, 1) >>
    [] c = "shared"   -> << Product(1, p), Product(p + 1, p) >>
    [] c = "repeat"   -> << Product(p, 1), Product(p, 2) >>
    [] c = "empty"    -> IF p = 1 THEN <<>> ELSE << Product(p, 1) >>

\* What one HTTP request may come back with: a document with a lower-case
\* "<html" marker, a document whose marker is upper-case only, or nothing
\* usable (non-200, empty body, exception, timeout).
Responses == {"html", "HTML", "bad"}

\* ------------------------------------------------------------------ state
VARIABLES
  pages, concurrency, retries, catalogue,   \* the run's parameters and input
  existing,                                 \* the output file as the run found it
  mainpc,                                   \* scrape_pages: load, launch, gather, returned, raised
  seen_urls, output_file, semaphore, running, total_new,
  pc, attempt, inner, new_items, results,   \* per page worker
  calls, sleeps,                            \* per call of scrape_single_page, history
  outcome, admitted, contexts,              \* per page worker, history
  retry_config,                             \* Config.RETRY_*: base, factor, jitter, max (ms)
  retry_delay,                              \* the last call of calculate_retry_delay
  run,                                      \* 1 for the first run on the file, 2 for a rerun
  first_ok                                  \* the pages the first run fetched, history

params == <<pages, concurrency, retries, catalogue, existing>>
shared == <<seen_urls, output_file, semaphore, total_new>>
local == <<attempt, inner, new_items, results>>
hist == <<calls, sleeps, outcome, admitted, contexts>>
policy == <<retry_config, retry_delay>>
reruns == <<run, first_ok>>
vars == <<params, mainpc, shared, running, pc, local, hist, policy, reruns>>

Workers == 1..pages

\* ---------------------------------------------------------------- helpers
Range(s) == {s[k] : k \in 1..Len(s)}

Urls(s) == {s[k].product_url : k \in 1..Len(s)}

RECURSIVE SumTo(_, _)
SumTo(f, n) == IF n = 0 THEN 0 ELSE f[n] + SumTo(f, n - 1)

\* Variant: the loader reads another key than the one the records carry.
LineUrlOtherKey(l) == NoUrl

\* json.loads(line.strip()) followed by obj.get("product_url"): the url to
\* add, or NoUrl when the line is skipped by the inner try/except.
LineUrl(l) == IF l.kind = "json" THEN l.product_url ELSE NoUrl

\* Iterating the text file decodes it; undecodable bytes raise
\* UnicodeDecodeError from the `for line in fh`, outside the inner try.
Decodable(f) == \A k \in 1..Len(f) : f[k].kind # "badutf8"

LoadedUrls(f) == {LineUrl(f[k]) : k \in 1..Len(f)} \ {NoUrl}

\* new_items = [item for item in products if url and url not in seen_urls]
NewItems(products, seen) ==
  SelectSeq(products, LAMBDA it : it.product_url # NoUrl /\ it.product_url \notin seen)

\* The event loop resumes a task only when no task is running.
Idle == running = 0

\* Variant: the workers run as preemptive threads.
CanRunPreemptive(i) == i \in Workers

\* Task i may take a step: the thread is free, or i is the task running.
CanRun(i) == i \in Workers /\ running \in {0, i}

\* Config's retry settings as shipped, in milliseconds.
DefaultRetryConfig == [base |-> 2000, factor |-> 2, jitter |-> 1000, max |-> 30000]

\* No delay has been computed yet.
NoDelay == [attempt |-> 0, jitter |-> 0, delay |-> 0]

\* The state of scrape_pages when it is called.
RunInit ==
  /\ pages \in 0..MaxPages
  /\ concurrency \in 1..MaxConcurrency
  /\ retries \in 1..MaxRetries
  /\ catalogue \in Catalogues
  /\ existing \in InitialFiles
  /\ output_file = existing
  /\ mainpc = "load"
  /\ seen_urls = {}
  /\ semaphore = concurrency
  /\ running = 0
  /\ total_new = 0
  /\ pc = [i \in Workers |-> "new"]
  /\ attempt = [i \in Workers |-> 0]
  /\ inner = [i \in Workers |-> 0]
  /\ new_items = [i \in Workers |-> <<>>]
  /\ results = [i \in Workers |-> 0]
  /\ calls = [i \in Workers |-> 0]
  /\ sleeps = [i \in Workers |-> 0]
  /\ outcome = [i \in Workers |-> "none"]
  /\ admitted = [i \in Workers |-> <<>>]
  /\ contexts = [i \in Workers |-> 0]
  /\ run = 1
  /\ first_ok = {}

Init ==
  /\ RunInit
  /\ retry_config = DefaultRetryConfig
  /\ retry_delay = NoDelay

\* ------------------------------------------------------------ scrape_pages
\* Seed seen_urls from the output file.
Load ==
  /\ mainpc = "load"
  /\ IF Decodable(output_file)
       THEN /\ seen_urls' = LoadedUrls(output_file)
            /\ mainpc' = "launch"
       ELSE /\ seen_urls' = LoadedUrls(SubSeq(output_file, 1,
                 (CHOOSE k \in 1..Len(output_file) : output_file[k].kind = "badutf8"
                    /\ \A j \in 1..(k - 1) : output_file[j].kind # "badutf8") - 1))
            /\ mainpc' = "raised"
  /\ UNCHANGED <<params, policy, reruns, output_file, semaphore, total_new, running, pc, local, hist>>

\* Launch the browser and hand the workers to gather.
Launch ==
  /\ mainpc = "launch"
  /\ mainpc' = "gather"
  /\ pc' = [i \in Workers |-> "wait"]
  /\ UNCHANGED <<params, policy, reruns, shared, running, local, hist>>

\* Variant: gather returns as soon as one worker has finished.
ReturnFirstCompleted ==
  /\ mainpc = "gather"
  /\ Idle
  /\ \E i \in Workers : pc[i] = "done"
  /\ total_new' = SumTo(results, pages)
  /\ mainpc' = "returned"
  /\ UNCHANGED <<params, policy, reruns, seen_urls, output_file, semaphore, running, pc, local, hist>>

\* gather has every result: sum them and return.
Return ==
  /\ mainpc = "gather"
  /\ Idle
  /\ \A i \in Workers : pc[i] = "done"
  /\ total_new' = SumTo(results, pages)
  /\ mainpc' = "returned"
  /\ UNCHANGED <<params, policy, reruns, seen_urls, output_file, semaphore, running, pc, local, hist>>

\* ------------------------------------------------------ scrape_pages.worker
\* Variant: the worker enters without waiting for a free slot.
AcquireUnbounded(i) ==
  /\ mainpc = "gather"
  /\ CanRun(i)
  /\ pc[i] = "wait"
  /\ semaphore' = semaphore - 1
  /\ pc' = [pc EXCEPT ![i] = "delay"]
  /\ UNCHANGED <<params, policy, reruns, mainpc, seen_urls, output_file, total_new, running, local, hist>>

\* `async with semaphore`: take a slot, then start the courtesy delay.
Acquire(i) ==
  /\ mainpc = "gather"
  /\ CanRun(i)
  /\ pc[i] = "wait"
  /\ semaphore > 0
  /\ semaphore' = semaphore - 1
  /\ pc' = [pc EXCEPT ![i] = "delay"]
  /\ UNCHANGED <<params, policy, reruns, mainpc, seen_urls, output_file, total_new, running, local, hist>>

\* --------------------------------------------------- scrape_single_page
\* Variant: the last failure is raised again instead of returning [].
ExceptReraise(i) ==
  IF attempt[i] < retries
    THEN /\ sleeps' = [sleeps EXCEPT ![i] = @ + 1]
         /\ pc' = [pc EXCEPT ![i] = "backoff"]
         /\ running' = 0
         /\ outcome' = outcome
    ELSE /\ outcome' = [outcome EXCEPT ![i] = "failed"]
         /\ pc' = [pc EXCEPT ![i] = "raised"]
         /\ running' = 0
         /\ sleeps' = sleeps

\* Variant: the retry test is `attempt <= retries`.
ExceptOffByOne(i) ==
  IF attempt[i] <= retries
    THEN /\ sleeps' = [sleeps EXCEPT ![i] = @ + 1]
         /\ pc' = [pc EXCEPT ![i] = "backoff"]
         /\ running' = 0
         /\ outcome' = outcome
    ELSE /\ outcome' = [outcome EXCEPT ![i] = "failed"]
         /\ pc' = [pc EXCEPT ![i] = "check"]
         /\ running' = i
         /\ sleeps' = sleeps

\* The `except Exception` branch: back off and retry, or give up with [].
Except(i) ==
  IF attempt[i] < retries
    THEN /\ sleeps' = [sleeps EXCEPT ![i] = @ + 1]
         /\ pc' = [pc EXCEPT ![i] = "backoff"]
         /\ running' = 0
         /\ outcome' = outcome
    ELSE /\ outcome' = [outcome EXCEPT ![i] = "failed"]
         /\ pc' = [pc EXCEPT ![i] = "check"]
         /\ running' = i
         /\ sleeps' = sleeps

\* The courtesy delay is over: attempt 1 calls fetch_via_brightdata.
FirstAttempt(i) ==
  /\ CanRun(i)
  /\ pc[i] = "delay"
  /\ attempt' = [attempt EXCEPT ![i] = 1]
  /\ inner' = [inner EXCEPT ![i] = 1]
  /\ calls' = [calls EXCEPT ![i] = @ + 1]
  /\ pc' = [pc EXCEPT ![i] = "request"]
  /\ running' = i
  /\ UNCHANGED <<params, policy, reruns, mainpc, shared, new_items, results,
                 sleeps, outcome, admitted, contexts>>

\* The backoff sleep is over: the next attempt calls fetch_via_brightdata.
Retry(i) ==
  /\ CanRun(i)
  /\ pc[i] = "backoff"
  /\ attempt' = [attempt EXCEPT ![i] = @ + 1]
  /\ inner' = [inner EXCEPT ![i] = 1]
  /\ calls' = [calls EXCEPT ![i] = @ + 1]
  /\ pc' = [pc EXCEPT ![i] = "request"]
  /\ running' = i
  /\ UNCHANGED <<params, policy, reruns, mainpc, shared, new_items, results,
                 sleeps, outcome, admitted, contexts>>

\* ---------------------------------------------------- fetch_via_brightdata
\* One requests.post of the transport's own retry loop.  A document ends
\* the call; scrape_single_page then wants a lower-case "<html" in it.
Request(i) ==
  /\ CanRun(i)
  /\ pc[i] = "request"
  /\ \E r \in Responses :
       CASE r = "html" -> /\ pc' = [pc EXCEPT ![i] = "render"]
                          /\ running' = 0
                          /\ inner' = [inner EXCEPT ![i] = 0]
                          /\ UNCHANGED <<sleeps, outcome>>
         [] r = "HTML" -> /\ Except(i)
                          /\ inner' = [inner EXCEPT ![i] = 0]
         [] r = "bad"  -> IF inner[i] < retries
                            THEN /\ pc' = [pc EXCEPT ![i] = "tsleep"]
                                 /\ UNCHANGED <<running, inner, sleeps, outcome>>
                            ELSE /\ Except(i)
                                 /\ inner' = [inner EXCEPT ![i] = 0]
  /\ UNCHANGED <<params, policy, reruns, mainpc, shared, attempt, new_items, results,
                 calls, admitted, contexts>>

\* time.sleep(delay) between two requests of the transport.
TransportSleep(i) ==
  /\ CanRun(i)
  /\ pc[i] = "tsleep"
  /\ inner' = [inner EXCEPT ![i] = @ + 1]
  /\ pc' = [pc EXCEPT ![i] = "request"]
  /\ UNCHANGED <<params, policy, reruns, mainpc, shared, running, attempt, new_items, results, hist>>

\* --------------------------------------- scrape_single_page, browser part
\* Variant: no wait for a product link, every document is parsed.
RenderAcceptsEmpty(i) ==
  /\ CanRun(i)
  /\ pc[i] = "render"
  /\ contexts' = [contexts EXCEPT ![i] = @ + 1]
  /\ pc' = [pc EXCEPT ![i] = "parse"]
  /\ UNCHANGED <<running, sleeps, outcome>>
  /\ UNCHANGED <<params, policy, reruns, mainpc, shared, local, calls, admitted>>

\* browser.new_context / new_page / set_content, then
\* page.wait_for_selector on the static document: it times out, and
\* raises, on a page without a product link; the context is then left open.
Render(i) ==
  /\ CanRun(i)
  /\ pc[i] = "render"
  /\ contexts' = [contexts EXCEPT ![i] = @ + 1]
  /\ IF PageProducts(catalogue, i) # <<>>
       THEN /\ pc' = [pc EXCEPT ![i] = "parse"]
            /\ UNCHANGED <<running, sleeps, outcome>>
       ELSE Except(i)
  /\ UNCHANGED <<params, policy, reruns, mainpc, shared, local, calls, admitted>>

\* Scrolling, parse_products_from_page, context.close(), return products.
ParseClose(i) ==
  /\ CanRun(i)
  /\ pc[i] = "parse"
  /\ contexts' = [contexts EXCEPT ![i] = @ - 1]
  /\ outcome' = [outcome EXCEPT ![i] = "ok"]
  /\ pc' = [pc EXCEPT ![i] = "check"]
  /\ running' = i
  /\ UNCHANGED <<params, policy, reruns, mainpc, shared, local, calls, sleeps, admitted>>

\* ---------------------------------------- scrape_pages.worker, after fetch
\* What scrape_single_page returned to the worker.
Products(i) == IF outcome[i] = "ok" THEN PageProducts(catalogue, i) ELSE <<>>

\* The list comprehension that builds new_items.  The call of
\* scrape_single_page is over: its loop variable and the counters of the
\* call are dropped.
Check(i) ==
  /\ CanRun(i)
  /\ pc[i] = "check"
  /\ new_items' = [new_items EXCEPT ![i] = NewItems(Products(i), seen_urls)]
  /\ pc' = [pc EXCEPT ![i] = "mark"]
  /\ attempt' = [attempt EXCEPT ![i] = 0]
  /\ calls' = [calls EXCEPT ![i] = 0]
  /\ sleeps' = [sleeps EXCEPT ![i] = 0]
  /\ UNCHANGED <<params, policy, reruns, mainpc, shared, running, inner, results,
                 outcome, admitted, contexts>>

\* for it in new_items: seen_urls.add(it["product_url"])
Mark(i) ==
  /\ CanRun(i)
  /\ pc[i] = "mark"
  /\ seen_urls' = seen_urls \cup Urls(new_items[i])
  /\ admitted' = [admitted EXCEPT ![i] = new_items[i]]
  /\ pc' = [pc EXCEPT ![i] = IF new_items[i] # <<>> THEN "commit" ELSE "release"]
  /\ UNCHANGED <<params, policy, reruns, mainpc, output_file, semaphore, total_new, running, local,
                 calls, sleeps, outcome, contexts>>

\* Variant: only the first new item is written.
CommitFirstOnly(i) ==
  /\ CanRun(i)
  /\ pc[i] = "commit"
  /\ output_file' = Append(output_file, Dumps(new_items[i][1]))
  /\ pc' = [pc EXCEPT ![i] = "release"]
  /\ UNCHANGED <<params, policy, reruns, mainpc, seen_urls, semaphore, total_new, running, local, hist>>

\* Variant: the file is opened with mode "w".
CommitTruncates(i) ==
  /\ CanRun(i)
  /\ pc[i] = "commit"
  /\ output_file' = [k \in 1..Len(new_items[i]) |-> Dumps(new_items[i][k])]
  /\ pc' = [pc EXCEPT ![i] = "release"]
  /\ UNCHANGED <<params, policy, reruns, mainpc, seen_urls, semaphore, total_new, running, local, hist>>

\* Append the new items to the output file, one line each.
Commit(i) ==
  /\ CanRun(i)
  /\ pc[i] = "commit"
  /\ output_file' = output_file \o [k \in 1..Len(new_items[i]) |-> Dumps(new_items[i][k])]
  /\ pc' = [pc EXCEPT ![i] = "release"]
  /\ UNCHANGED <<params, policy, reruns, mainpc, seen_urls, semaphore, total_new, running, local, hist>>

\* Variant: the worker leaves without giving its slot back.
ReleaseLeaksSlot(i) ==
  /\ CanRun(i)
  /\ pc[i] = "release"
  /\ results' = [results EXCEPT ![i] = Len(new_items[i])]
  /\ pc' = [pc EXCEPT ![i] = "done"]
  /\ running' = 0
  /\ UNCHANGED <<params, policy, reruns, mainpc, seen_urls, output_file, semaphore, total_new,
                 attempt, inner, new_items, hist>>

\* Variant: the worker reports the number of products parsed.
ReleaseCountsParsed(i) ==
  /\ CanRun(i)
  /\ pc[i] = "release"
  /\ results' = [results EXCEPT ![i] = Len(Products(i))]
  /\ semaphore' = semaphore + 1
  /\ pc' = [pc EXCEPT ![i] = "done"]
  /\ running' = 0
  /\ UNCHANGED <<params, policy, reruns, mainpc, seen_urls, output_file, total_new,
                 attempt, inner, new_items, hist>>

\* return len(new_items), leaving the `async with semaphore` block.
Release(i) ==
  /\ CanRun(i)
  /\ pc[i] = "release"
  /\ results' = [results EXCEPT ![i] = Len(new_items[i])]
  /\ semaphore' = semaphore + 1
  /\ pc' = [pc EXCEPT ![i] = "done"]
  /\ running' = 0
  /\ UNCHANGED <<params, policy, reruns, mainpc, seen_urls, output_file, total_new,
                 attempt, inner, new_items, hist>>

Worker(i) ==
  \/ Acquire(i) \/ FirstAttempt(i) \/ Retry(i) \/ Request(i) \/ TransportSleep(i)
  \/ Render(i) \/ ParseClose(i)
  \/ Check(i) \/ Mark(i) \/ Commit(i) \/ Release(i)

Next == Load \/ Launch \/ Return \/ \E i \in 1..MaxPages : Worker(i)

Spec == Init /\ [][Next]_vars

\* The event loop keeps running scrape_pages and every task that is ready;
\* every sleep and every request ends.
Fairness ==
  /\ WF_vars(Load) /\ WF_vars(Launch) /\ WF_vars(Return)
  /\ \A i \in 1..MaxPages : WF_vars(Worker(i))

\* Runs on an empty output file, over pages that share urls or include a
\* page without products: the inputs that decide which steps a pipeline
\* takes on its way to the end.
FairInit == Init /\ existing = <<>> /\ catalogue \in {"shared", "empty"}

FairSpec == FairInit /\ [][Next]_vars /\ Fairness

\* ------------------------------------------------- failing file append
\* open(output_file, "a") or a write raises OSError: the lines written
\* before it stay, the exception leaves the `async with` block, which
\* gives the slot back, and ends the task.
CommitFails(i) ==
  /\ CanRun(i)
  /\ pc[i] = "commit"
  /\ \E k \in 0..(Len(new_items[i]) - 1) :
       output_file' = output_file \o [n \in 1..k |-> Dumps(new_items[i][n])]
  /\ semaphore' = semaphore + 1
  /\ pc' = [pc EXCEPT ![i] = "raised"]
  /\ running' = 0
  /\ UNCHANGED <<params, policy, reruns, mainpc, seen_urls, total_new, local, hist>>

\* gather awaits the tasks as they complete and nothing catches the
\* exception of a task: it leaves scrape_pages, and asyncio.run cancels
\* the tasks that have not finished.
GatherRaises ==
  /\ mainpc = "gather"
  /\ Idle
  /\ \E i \in Workers : pc[i] = "raised"
  /\ mainpc' = "raised"
  /\ pc' = [i \in Workers |-> IF pc[i] \in {"done", "raised"} THEN pc[i] ELSE "cancelled"]
  /\ semaphore' = concurrency
  /\ UNCHANGED <<params, policy, reruns, seen_urls, output_file, total_new, running, local, hist>>

IONext ==
  \/ Next
  \/ \E i \in 1..MaxPages : CommitFails(i)
  \/ GatherRaises

\* The run with an output file that may fail to take an append.
IOSpec == Init /\ [][IONext]_vars

\* ------------------------------------------------------------ second run
\* The program is started again on the file the first run left, with the
\* same pages: every object of the first run is gone, the file stays.
Restart ==
  /\ mainpc = "returned"
  /\ run = 1
  /\ run' = 2
  /\ first_ok' = {i \in Workers : outcome[i] = "ok"}
  /\ existing' = output_file
  /\ mainpc' = "load"
  /\ seen_urls' = {}
  /\ semaphore' = concurrency
  /\ running' = 0
  /\ total_new' = 0
  /\ pc' = [i \in Workers |-> "new"]
  /\ attempt' = [i \in Workers |-> 0]
  /\ inner' = [i \in Workers |-> 0]
  /\ new_items' = [i \in Workers |-> <<>>]
  /\ results' = [i \in Workers |-> 0]
  /\ calls' = [i \in Workers |-> 0]
  /\ sleeps' = [i \in Workers |-> 0]
  /\ outcome' = [i \in Workers |-> "none"]
  /\ admitted' = [i \in Workers |-> <<>>]
  /\ contexts' = [i \in Workers |-> 0]
  /\ UNCHANGED <<pages, concurrency, retries, catalogue, output_file, policy>>

RestartNext == Next \/ Restart

\* A first run on a file the program wrote, or on none, then a second run.
RestartInit == Init /\ existing = <<>> /\ catalogue \in {"shared", "repeat", "distinct"}

RestartSpec == RestartInit /\ [][RestartNext]_vars

\* ------------------------------------------- Config.calculate_retry_delay
\* Times are whole milliseconds. The attempt numbers tried.
MaxAttempt == 5

\* Settings the environment can give: the shipped ones, a cap and a base
\* delay that are not whole hundredths of a second, a constant delay.
RetryConfigs ==
  { DefaultRetryConfig,
    [base |-> 2000, factor |-> 2, jitter |-> 1000, max |-> 7006],
    [base |-> 1255, factor |-> 3, jitter |-> 0,    max |-> 30000],
    [base |-> 500,  factor |-> 1, jitter |-> 20,   max |-> 30000] }

Min(a, b) == IF a <= b THEN a ELSE b

\* RETRY_BASE_DELAY * (RETRY_BACKOFF_FACTOR ** (attempt - 1))
Exponential(c, a) == c.base * c.factor ^ (a - 1)

\* min(delay + jitter, RETRY_MAX_DELAY)
Capped(c, a, j) == Min(Exponential(c, a) + j, c.max)

\* round(x, 2): the nearest hundredth of a second; a value half-way between
\* two hundredths goes to either, as its binary representation falls.
Round2(x) ==
  IF x % 10 = 5 THEN {x - 5, x + 5}
  ELSE IF x % 10 < 5 THEN {x - (x % 10)} ELSE {x - (x % 10) + 10}

\* Variant: the sum is not capped at RETRY_MAX_DELAY.
CalculateRetryDelayUncapped ==
  /\ retry_delay = NoDelay
  /\ \E a \in 1..MaxAttempt : \E j \in 0..retry_config.jitter :
       \E d \in Round2(Exponential(retry_config, a) + j) :
         retry_delay' = [attempt |-> a, jitter |-> j, delay |-> d]
  /\ UNCHANGED <<params, reruns, mainpc, shared, running, pc, local, hist, retry_config>>

\* One call calculate_retry_delay(a) with a jitter draw j, by a caller that
\* has no delay to sleep yet.
CalculateRetryDelay ==
  /\ retry_delay = NoDelay
  /\ \E a \in 1..MaxAttempt : \E j \in 0..retry_config.jitter :
       \E d \in Round2(Capped(retry_config, a, j)) :
         retry_delay' = [attempt |-> a, jitter |-> j, delay |-> d]
  /\ UNCHANGED <<params, reruns, mainpc, shared, running, pc, local, hist, retry_config>>

\* The caller sleeps for the delay: await asyncio.sleep(delay), or
\* time.sleep(delay) in the transport.
SleepDelay ==
  /\ retry_delay # NoDelay
  /\ retry_delay' = NoDelay
  /\ UNCHANGED <<params, reruns, mainpc, shared, running, pc, local, hist, retry_config>>

\* The calls of calculate_retry_delay on their own, under each setting.
DelayInit ==
  /\ RunInit
  /\ pages = 0 /\ concurrency = 1 /\ retries = 1
  /\ catalogue = "distinct" /\ existing = <<>>
  /\ retry_config \in RetryConfigs
  /\ retry_delay = NoDelay

DelayNext == CalculateRetryDelay \/ SleepDelay

DelaySpec == DelayInit /\ [][DelayNext]_vars

\* ------------------------------------------------------------- properties
\* The positions at which a worker is inside `async with semaphore`.
InSlot == {"delay", "request", "tsleep", "render", "parse",
           "backoff", "check", "mark", "commit", "release"}

Holding == {i \in Workers : pc[i] \in InSlot}

\* The thread is held exactly by a worker in a synchronous stretch.
TypeOK ==
  /\ running \in {0} \cup Workers
  /\ \A i \in Workers :
       (running = i) <=> (pc[i] \in {"request", "tsleep", "check", "mark", "commit", "release"})

NoDuplicateUrl(s) ==
  \A a, b \in 1..Len(s) : a # b => s[a].product_url # s[b].product_url

\* The lines the run has appended to the output file.
Appended == SubSeq(output_file, Len(existing) + 1, Len(output_file))

\* C1: at most `concurrency` page pipelines hold a semaphore slot at any
\* time, from the start of the courtesy delay to the end of the commit; the
\* free slots and the held ones always add up to `concurrency`.
C1_ConcurrencyCap ==
  /\ Cardinality(Holding) <= concurrency
  /\ semaphore + Cardinality(Holding) = concurrency

\* C1 witness: every slot is taken and a further pipeline waits for one.
C1_Witness ==
  /\ Cardinality(Holding) = concurrency
  /\ \E i \in Workers : pc[i] = "wait"

\* C2: the records a run admits and appends never hold a url twice, and
\* every admitted url is in the index.
C2_NoUrlAdmittedTwice ==
  /\ NoDuplicateUrl(Appended)
  /\ \A i \in Workers : NoDuplicateUrl(admitted[i])
  /\ \A i, j \in Workers : i # j => Urls(admitted[i]) \cap Urls(admitted[j]) = {}
  /\ \A i \in Workers : Urls(admitted[i]) \subseteq seen_urls

\* The urls that are new to the index and that some page past its
\* check-and-mark step holds.
Marked == {"commit", "release", "done"}

ContestedUrls ==
  UNION {Urls(Products(i)) : i \in {w \in Workers : pc[w] \in Marked}}
    \ LoadedUrls(existing)

\* C3: the check of seen_urls and the insertion of the new urls are one
\* atomic step with respect to the other pipelines: between the two only
\* the checking pipeline moves, and a url held by several pages is
\* admitted by exactly one of them.
C3_CheckAndMarkAtomic ==
  /\ [](\A i, j \in Workers : i # j => Urls(admitted[i]) \cap Urls(admitted[j]) = {})
  /\ [](\A u \in ContestedUrls :
          Cardinality({i \in Workers : u \in Urls(admitted[i])}) = 1)
  /\ [][\A i \in Workers : pc[i] = "mark" =>
          /\ pc'[i] # "mark"
          /\ seen_urls' = seen_urls \cup Urls(new_items[i])
          /\ \A j \in Workers \ {i} : pc'[j] = pc[j]]_vars

\* C3 witness: two pages that finished hold the same new url, the later
\* page admitted it and the earlier page, running concurrently, did not.
C3_Witness ==
  \E i, j \in Workers : \E u \in Urls(admitted[i]) :
    /\ j < i
    /\ concurrency >= 2
    /\ pc[i] = "done" /\ pc[j] = "done"
    /\ outcome[j] = "ok"
    /\ u \in Urls(Products(j))
    /\ u \notin Urls(admitted[j])
\* The pipeline of page i has ended with a fetch failure.
Failed(i) == outcome[i] = "failed"

\* C4: a pipeline whose fetch failed on every attempt admits and commits
\* nothing and changes neither the index nor the output file; it ends
\* normally with 0, never with an exception, so the run is not aborted, and
\* when the run returns every sibling that fetched its page has its urls in
\* the index and its admitted records in the output file.
C4_FailedPageContained ==
  /\ [](\A i \in Workers : Failed(i) =>
          /\ pc[i] \in {"check", "mark", "release", "done"}
          /\ new_items[i] = <<>> /\ admitted[i] = <<>> /\ results[i] = 0)
  /\ [](mainpc = "raised" => \A i \in Workers : pc[i] = "new")
  /\ [](mainpc = "returned" => \A j \in Workers : outcome[j] = "ok" =>
          /\ pc[j] = "done"
          /\ Urls(PageProducts(catalogue, j)) \subseteq seen_urls
          /\ \A k \in 1..Len(admitted[j]) : Dumps(admitted[j][k]) \in Range(Appended))
  /\ [][\A i \in Workers : (Failed(i) /\ pc'[i] # pc[i]) =>
          (seen_urls' = seen_urls /\ output_file' = output_file)]_vars

\* C4 witness: the run has returned, one page failed every attempt and a
\* sibling committed records of its own.
C4_Witness ==
  /\ mainpc = "returned"
  /\ \E i, j \in Workers :
       /\ Failed(i) /\ results[i] = 0
       /\ outcome[j] = "ok" /\ admitted[j] # <<>>
       /\ Range(Appended) # {}

\* The positions of a worker inside its call of scrape_single_page, the
\* return to the worker included.
InCall == {"request", "tsleep", "render", "parse", "backoff", "check"}

\* The failed attempts of the call of page i that are over.
FailedAttempts(i) ==
  IF Failed(i) \/ pc[i] = "backoff" THEN attempt[i] ELSE attempt[i] - 1

\* C5: one call of scrape_single_page calls the transport at most
\* `retries` times, once per attempt, the attempts being numbered 1, 2, ...
\* in order; no attempt follows a successful one; a backoff sleep follows
\* failed attempt k exactly when k < retries; and [] is returned for a
\* failure only after exactly `retries` failed attempts.
C5_BoundedAttempts ==
  /\ [](\A i \in Workers : pc[i] \in InCall =>
          /\ attempt[i] \in 1..retries
          /\ calls[i] = attempt[i]
          /\ sleeps[i] = (IF FailedAttempts(i) < retries THEN FailedAttempts(i) ELSE retries - 1)
          /\ (Failed(i) => calls[i] = retries /\ sleeps[i] = retries - 1)
          /\ (pc[i] = "backoff" => attempt[i] < retries)
          /\ (outcome[i] # "none" => pc[i] = "check"))
  /\ [][\A i \in Workers :
          /\ (pc'[i] \in InCall /\ attempt'[i] # attempt[i]) =>
                (attempt'[i] = attempt[i] + 1 /\ calls'[i] = calls[i] + 1)
          /\ (outcome[i] # "none" => outcome'[i] = outcome[i] /\ calls'[i] <= calls[i]
                                      /\ pc'[i] \in {"check", "mark", "commit", "release", "done"})]_vars

\* C5 witness: a page failed after more than one attempt, with a backoff
\* sleep after each attempt but the last.
C5_Witness ==
  \E i \in Workers :
    /\ pc[i] = "check" /\ Failed(i)
    /\ retries >= 2 /\ calls[i] = retries /\ sleeps[i] = retries - 1

\* C6: when scrape_pages has returned, every scheduled page pipeline has
\* finished, with its records committed or with a fetch failure.
C6_ReturnsAfterAllPipelines ==
  mainpc = "returned" =>
    \A i \in Workers : pc[i] = "done" /\ outcome[i] \in {"ok", "failed"}

\* C6 witness: a run of at least two pages has returned, one page failed
\* and one succeeded.
C6_Witness ==
  /\ mainpc = "returned"
  /\ pages >= 2
  /\ \E i, j \in Workers : outcome[i] = "ok" /\ Failed(j)
Suspended == {"delay", "backoff", "render", "parse"}

InTransport == {"request", "tsleep"}

\* C8: the transport call and the backoff sleep are suspension points:
\* while one pipeline is in fetch_via_brightdata, or sleeps between two
\* attempts, every other pipeline that holds a slot and waits at an await
\* can take its next step.
C8_TransportYields ==
  \A i, j \in Workers :
    (i # j /\ pc[i] \in InTransport \cup {"backoff"} /\ pc[j] \in Suspended)
      => ENABLED Worker(j)

\* The urls of the lines that are JSON objects with a product_url.
WellFormedUrls(f) ==
  {f[k].product_url : k \in {n \in 1..Len(f) : f[n].kind = "json" /\ f[n].product_url # NoUrl}}

\* C9: seeding the index from a file of well-formed and malformed lines
\* never fails and yields exactly the urls of the well-formed lines, and
\* the run that follows never admits one of these urls.
C9_LoadSkipsMalformed ==
  /\ mainpc # "raised"
  /\ mainpc = "launch" => seen_urls = WellFormedUrls(existing)
  /\ mainpc # "load" => WellFormedUrls(existing) \subseteq seen_urls
  /\ \A i \in Workers : Urls(admitted[i]) \cap WellFormedUrls(existing) = {}

\* C10: when the run returns, total_new is the sum of the numbers of
\* records the pages admitted and the number of lines the output file
\* gained during the run.
C10_TotalNewIsLinesGained ==
  mainpc = "returned" =>
    /\ total_new = SumTo([i \in Workers |-> Len(admitted[i])], pages)
    /\ total_new = Len(output_file) - Len(existing)

\* C10 witness: empty file, two pages of three products each, six distinct
\* urls: the run returns 6 and the file has 6 lines.
C10_Witness ==
  /\ mainpc = "returned"
  /\ existing = <<>> /\ pages = 2 /\ catalogue = "distinct"
  /\ \A i \in Workers : Len(admitted[i]) = 3
  /\ total_new = 6
  /\ Len(output_file) = 6 /\ Cardinality(Urls(output_file)) = 6

\* C11: what a run reports tells a page that failed every attempt from a
\* page that was fetched and held no new record: the value a failed page
\* contributes to the returned summary differs from the value of every
\* page that succeeded, so the numbers of succeeded and of failed pages can
\* be read off the summary.
C11_SummaryTellsFailures ==
  mainpc = "returned" =>
    \A i, j \in Workers :
      (Failed(i) /\ outcome[j] = "ok") => results[i] # results[j]

\* The run that handles the pages one after the other in page order, as a
\* run with one slot whose tasks start in page order does: the index and
\* the lines appended after pages 1..n.
RECURSIVE InPageOrder(_)
InPageOrder(n) ==
  IF n = 0
    THEN [seen |-> LoadedUrls(existing), out |-> <<>>]
    ELSE LET r   == InPageOrder(n - 1)
             new == NewItems(Products(n), r.seen)
         IN  [seen |-> r.seen \cup Urls(new),
              out  |-> r.out \o [k \in 1..Len(new) |-> Dumps(new[k])]]

\* No two pages hold different records for one url.
ConsistentPages ==
  \A i, j \in Workers :
    \A a \in Range(Products(i)), b \in Range(Products(j)) :
      (i # j /\ a.product_url = b.product_url) => a = b

\* The urls that were in the file before the run or on a fetched page.
ExpectedUrls ==
  WellFormedUrls(existing) \cup UNION {Urls(Products(i)) : i \in Workers}

\* C12 as stated: whatever the number of slots and the order in which the
\* pipelines complete, the records a run has appended when it returns are
\* those of the run that handles the same pages one at a time in page
\* order, urls and contents alike.
C12_SameRecordsAnyOrder ==
  mainpc = "returned" => Range(Appended) = Range(InPageOrder(pages).out)

\* C12, amended: whatever the number of slots and the completion order,
\* the file ends with the same set of urls, those it held before and those
\* of the fetched pages; the records themselves are the same as in the
\* page-order run whenever no two pages hold different records for one
\* url.
C12_SameUrlsAnyOrder ==
  mainpc = "returned" =>
    /\ WellFormedUrls(output_file) = ExpectedUrls
    /\ ConsistentPages => Range(Appended) = Range(InPageOrder(pages).out)

\* C12 witness: two slots, two fetched pages sharing url 1 with different
\* contents, and the record of page 2 was the one committed.
C12_Witness ==
  /\ mainpc = "returned"
  /\ concurrency >= 2 /\ pages >= 2 /\ catalogue = "shared"
  /\ outcome[1] = "ok" /\ outcome[2] = "ok"
  /\ Dumps(Product(1, 2)) \in Range(Appended)
  /\ Dumps(Product(1, 1)) \notin Range(Appended)

\* The settings are whole hundredths of a second.
InHundredths(c) == c.base % 10 = 0 /\ c.max % 10 = 0 /\ c.jitter % 10 = 0

C14_AppendFailureContained ==
  mainpc = "raised" => \A i \in Workers : pc[i] \notin {"raised", "cancelled"}

\* The page of worker i holds no product.
EmptyPage(i) == PageProducts(catalogue, i) = <<>>

\* C15 as stated: an attempt whose document is well formed and holds no
\* product is a success: the call returns an empty list on that attempt,
\* with no backoff sleep and no further attempt.
C15_EmptyPageSucceeds ==
  [][\A i \in Workers : (pc[i] = "render" /\ EmptyPage(i) /\ pc'[i] # "render") =>
        /\ outcome'[i] = "ok"
        /\ sleeps'[i] = sleeps[i]
        /\ attempt'[i] = attempt[i]]_vars

\* C15, amended: an attempt whose document is well formed and holds no
\* product is a failed attempt like any other: it is followed by a backoff
\* sleep and a further attempt while attempts are left, and after the last
\* one the call returns [] as a failure; such a page never ends as a
\* success and contributes no record.
C15_EmptyPageIsRetried ==
  /\ [](\A i \in Workers : EmptyPage(i) =>
          /\ outcome[i] # "ok"
          /\ pc[i] # "parse"
          /\ (pc[i] = "done" => Failed(i) /\ results[i] = 0 /\ admitted[i] = <<>>))
  /\ [][\A i \in Workers : (pc[i] = "render" /\ EmptyPage(i) /\ pc'[i] # "render") =>
          IF attempt[i] < retries
            THEN pc'[i] = "backoff" /\ sleeps'[i] = sleeps[i] + 1 /\ outcome'[i] = "none"
            ELSE pc'[i] = "check" /\ outcome'[i] = "failed"]_vars

\* C15 witness: a page without products was fetched and rendered on its
\* first attempt, and is in the backoff sleep before the second attempt.
C15_Witness ==
  \E i \in Workers :
    /\ EmptyPage(i)
    /\ pc[i] = "backoff" /\ attempt[i] = 1 /\ sleeps[i] = 1
    /\ contexts[i] = 1

\* The lines of the records worker i admitted, in the order admitted.
Block(i) == [k \in 1..Len(admitted[i]) |-> Dumps(admitted[i][k])]

\* The workers whose commit is over.
Committed == {i \in Workers : pc[i] \in {"release", "done"} /\ admitted[i] # <<>>}

\* C16: the output file only grows at its end and one pipeline writes at a
\* time: every change of the file is one pipeline appending the lines of
\* the records it admitted, in the order admitted, while no other pipeline
\* moves; the lines that were there stay in place, and the lines of each
\* pipeline lie together in the file, not mixed with another pipeline's.
C16_AppendOnlyOneWriter ==
  /\ [](/\ SubSeq(output_file, 1, Len(existing)) = existing
        /\ Len(Appended) = SumTo([i \in Workers |-> IF i \in Committed THEN Len(Block(i)) ELSE 0], pages)
        /\ \A i \in Committed : \E o \in 0..(Len(Appended) - Len(Block(i))) :
              SubSeq(Appended, o + 1, o + Len(Block(i))) = Block(i))
  /\ [][output_file' # output_file =>
          \E i \in Workers :
            /\ pc[i] = "commit" /\ pc'[i] = "release"
            /\ output_file' = output_file \o Block(i)
            /\ SubSeq(output_file', 1, Len(output_file)) = output_file
            /\ \A j \in Workers \ {i} : pc'[j] = pc[j]]_vars

\* C16 witness: the file held a line before the run, two pipelines ran
\* with two slots and each appended several lines, page 2 before page 1.
C16_Witness ==
  /\ concurrency >= 2 /\ existing # <<>>
  /\ {1, 2} \subseteq Committed
  /\ Len(Block(1)) >= 2 /\ Len(Block(2)) >= 2
  /\ output_file = existing \o Block(2) \o Block(1)

\* The number of records admitted to the index whose line is not in the
\* output file: what a crash of the process in this state would lose.
NotDurable == SumTo([i \in Workers |-> Len(admitted[i])], pages) - Len(Appended)

\* C17: each record reaches the output file by a write of its own, so in
\* every state at most one admitted record, the one being appended, is
\* not in the file yet.
C17_AtMostOneNotDurable == NotDurable <= 1

\* A lower bound of the HTTP requests sent for page i by the time the
\* worker is inside fetch_via_brightdata: each earlier attempt of
\* scrape_single_page sent at least one, and `inner` counts those of the
\* current call, the one being sent included.
RequestsAtLeast(i) == (attempt[i] - 1) + inner[i]

\* C18: MAX_RETRIES bounds the HTTP requests sent for one page, over both
\* retry loops, also when every request fails.
C18_RequestsBoundedByRetries ==
  \A i \in Workers : pc[i] \in InTransport => RequestsAtLeast(i) <= retries

\* The pages the current run has fetched.
FetchedNow == {i \in Workers : outcome[i] = "ok"}

C20_ContextsClosed ==
  \A i \in Workers : pc[i] # "parse" => contexts[i] = 0
====
